---- MODULE Spec2Model ----
(***************************************************************************)
(* Model of node/consensus/config.go: the consensus configuration object,  *)
(* its two constructors, export with address/name overrides, the seed      *)
(* picker and the persister.                                               *)
(*                                                                         *)
(* Go strings that the code parses (the override string, addresses) are    *)
(* sequences of one-character strings; strings the code only compares      *)
(* with "" or copies (names, kinds, paths) are TLA+ strings.  A JSON       *)
(* document is a record of JSON values, a field being Absent, JNull or a   *)
(* value; Go values keep their Go type (nil slice vs empty slice, nil map, *)
(* int vs float64 inside the Settings map).                                *)
(***************************************************************************)
EXTENDS Integers, Sequences, FiniteSets, TLC

VARIABLES cfg, fs, last, origin

vars == <<cfg, fs, last, origin>>

(* ------------------------------ bounds -------------------------------- *)

\* longest override string, counted in comma-separated tokens
MaxTokens == 2

Paths == {"p1", "p2"}

(* ----------------------------- constants ------------------------------ *)

KindConseususPoW == "proofofwork"

OtherKind == "proofofstake"

DefaultCoinsForBlockMade == 10

Own == <<"o", "w", "n">>

AddrA == <<"a", ":", "1">>

AddrB == <<"b", ":", "2">>

AddrSelf == <<"s", ":", "3">>

EmptyStr == <<>>

(* ------------------------- Go and JSON values -------------------------- *)

NoObject == [none |-> "object"]

NoFile == [none |-> "file"]

Garbage == [none |-> "json"]

Absent == [absent |-> TRUE]

JNull == [null |-> TRUE]

\* a Go slice: nil, or its elements (an empty slice that is not nil has none)
NilSlice == [nil |-> TRUE, elems |-> <<>>]

Slice(elems) == [nil |-> FALSE, elems |-> elems]

NilMap == [nil |-> "map"]

NoDoc == [none |-> "document"]

NoAddr == [nil |-> "NodeAddr"]

JMissing(v) == v = Absent \/ v = JNull

JNum(n) == [num |-> n]

JStr(s) == [str |-> s]

JBool(b) == [bool |-> b]

JArr(s) == [arr |-> s]

JObj(f) == [obj |-> f]

GoInt(n) == [t |-> "int", v |-> n]

GoFloat(n) == [t |-> "float64", v |-> n]

GoString(s) == [t |-> "string", v |-> s]

CostFields == {"Default", "RowDelete", "RowUpdate", "RowInsert", "TableCreate"}

\* len() of a Go slice: a nil slice has length 0
SliceLen(s) == Len(s.elems)

(* ----------------------- proof-of-work settings ------------------------ *)

SettingsKeys == {"k1", "k2"}

UnknownKey == "zz"

\* the keys a Settings map is modelled over; a key the map does not hold
\* is mapped to NoValue (Go) or Absent (JSON)
MapKeys == SettingsKeys \cup {UnknownKey}

NoValue == [t |-> "none", v |-> 0]

HasKey(m, k) == m # NilMap /\ k \in MapKeys /\ m[k].t # "none"

PoWDefault(k) == IF k = "k1" THEN 16 ELSE 24

\* ProofOfWorkSettings{}: every field at its zero value
ZeroSettings == [k \in SettingsKeys |-> 0]

\* mapstructure.Decode(config.Settings, &s): fields named in the map are
\* set from numbers; a value of another type is an error for that field
\* (the error is discarded) and keys that are no field are not used
MapstructureDecode(m) ==
  [k \in SettingsKeys |->
     IF HasKey(m, k) /\ m[k].t \in {"int", "float64"}
     THEN m[k].v ELSE 0]

\* s.completeSettings(): fills every field that is not set
completeSettings(s) ==
  [k \in SettingsKeys |-> IF s[k] = 0 THEN PoWDefault(k) ELSE s[k]]

\* structs.Map(s): one key per field of the struct
StructsMap(s) == [k \in MapKeys |-> IF k \in SettingsKeys THEN GoInt(s[k]) ELSE NoValue]

(* ------------------------------- JSON ---------------------------------- *)

MarshalValue(v) ==
  IF v.t = "none" THEN Absent
  ELSE IF v.t = "string" THEN JStr(v.v) ELSE JNum(v.v)

UnmarshalValue(j) ==
  IF j = Absent THEN NoValue
  ELSE IF "num" \in DOMAIN j THEN GoFloat(j.num) ELSE GoString(j.str)

MarshalCost(c) == [f \in CostFields |-> JNum(c[f])]

MarshalStrings(s) ==
  IF s = NilSlice THEN JNull ELSE JArr([i \in DOMAIN s.elems |-> JStr(s.elems[i])])

MarshalTable(t) ==
  [Table |-> JStr(t.Table), AllowRowDelete |-> JBool(t.AllowRowDelete),
   AllowRowUpdate |-> JBool(t.AllowRowUpdate),
   AllowRowInsert |-> JBool(t.AllowRowInsert),
   AllowTableCreate |-> JBool(t.AllowTableCreate),
   TransactionCost |-> MarshalCost(t.TransactionCost)]

\* json.Marshal(cc): every exported field is written, the unexported
\* lifecycle state is not; a nil slice or map is written as null
Marshal(cc) ==
  [Application |-> [Name |-> JStr(cc.Application.Name),
                    WebSite |-> JStr(cc.Application.WebSite),
                    Team |-> JStr(cc.Application.Team)],
   Kind |-> JStr(cc.Kind),
   CoinsForBlockMade |-> JNum(cc.CoinsForBlockMade),
   Settings |-> IF cc.Settings = NilMap THEN JNull
                ELSE JObj([k \in MapKeys |-> MarshalValue(cc.Settings[k])]),
   AllowTableCreate |-> JBool(cc.AllowTableCreate),
   AllowTableDrop |-> JBool(cc.AllowTableDrop),
   AllowRowDelete |-> JBool(cc.AllowRowDelete),
   TransactionCost |-> MarshalCost(cc.TransactionCost),
   UnmanagedTables |-> MarshalStrings(cc.UnmanagedTables),
   TableRules |-> IF cc.TableRules = NilSlice THEN JNull
                  ELSE JArr([i \in DOMAIN cc.TableRules.elems |->
                               MarshalTable(cc.TableRules.elems[i])]),
   InitNodesAddreses |-> MarshalStrings(cc.InitNodesAddreses),
   Extra |-> Absent]

ZeroCost == [f \in CostFields |-> 0]

ZeroState == [isDefault |-> FALSE, filePath |-> ""]

\* ConsensusConfig{}
ZeroConfig ==
  [Application |-> [Name |-> "", WebSite |-> "", Team |-> ""],
   Kind |-> "",
   CoinsForBlockMade |-> 0,
   Settings |-> NilMap,
   AllowTableCreate |-> FALSE,
   AllowTableDrop |-> FALSE,
   AllowRowDelete |-> FALSE,
   TransactionCost |-> ZeroCost,
   UnmanagedTables |-> NilSlice,
   TableRules |-> NilSlice,
   InitNodesAddreses |-> NilSlice,
   state |-> ZeroState]

UnmarshalString(j, zero) == IF JMissing(j) THEN zero ELSE j.str

UnmarshalBool(j, zero) == IF JMissing(j) THEN zero ELSE j.bool

UnmarshalStrings(j) ==
  IF JMissing(j) THEN NilSlice ELSE Slice([i \in DOMAIN j.arr |-> j.arr[i].str])

UnmarshalNum(j, zero) == IF JMissing(j) THEN zero ELSE j.num

UnmarshalCost(j, zero) ==
  IF JMissing(j) THEN zero
  ELSE [f \in CostFields |-> UnmarshalNum(j[f], zero[f])]

UnmarshalTable(j) ==
  [Table |-> UnmarshalString(j.Table, ""),
   AllowRowDelete |-> UnmarshalBool(j.AllowRowDelete, FALSE),
   AllowRowUpdate |-> UnmarshalBool(j.AllowRowUpdate, FALSE),
   AllowRowInsert |-> UnmarshalBool(j.AllowRowInsert, FALSE),
   AllowTableCreate |-> UnmarshalBool(j.AllowTableCreate, FALSE),
   TransactionCost |-> UnmarshalCost(j.TransactionCost, ZeroCost)]

\* a JSON value that cannot be stored in the Go field it is named for
TypeMismatch(bytes) == ~JMissing(bytes.Kind) /\ "str" \notin DOMAIN bytes.Kind

UnmarshalOk(bytes) == bytes # Garbage /\ ~TypeMismatch(bytes)

\* json.Unmarshal(jsonStr, &config) on config := ConsensusConfig{}: absent
\* and null fields keep the zero value, unknown fields are ignored
Unmarshal(bytes) ==
  [Application |->
     IF JMissing(bytes.Application) THEN ZeroConfig.Application
     ELSE [Name |-> UnmarshalString(bytes.Application.Name, ""),
           WebSite |-> UnmarshalString(bytes.Application.WebSite, ""),
           Team |-> UnmarshalString(bytes.Application.Team, "")],
   Kind |-> UnmarshalString(bytes.Kind, ""),
   CoinsForBlockMade |-> UnmarshalNum(bytes.CoinsForBlockMade, 0),
   Settings |-> IF JMissing(bytes.Settings) THEN NilMap
                ELSE [k \in MapKeys |-> UnmarshalValue(bytes.Settings.obj[k])],
   AllowTableCreate |-> UnmarshalBool(bytes.AllowTableCreate, FALSE),
   AllowTableDrop |-> UnmarshalBool(bytes.AllowTableDrop, FALSE),
   AllowRowDelete |-> UnmarshalBool(bytes.AllowRowDelete, FALSE),
   TransactionCost |-> UnmarshalCost(bytes.TransactionCost, ZeroCost),
   UnmanagedTables |-> UnmarshalStrings(bytes.UnmanagedTables),
   TableRules |-> IF JMissing(bytes.TableRules) THEN NilSlice
                  ELSE Slice([i \in DOMAIN bytes.TableRules.arr |->
                                UnmarshalTable(bytes.TableRules.arr[i])]),
   InitNodesAddreses |-> UnmarshalStrings(bytes.InitNodesAddreses),
   state |-> ZeroState]

(* --------------------------- constructors ------------------------------ *)

\* LoadDefaults leaving an empty Kind as it is
LoadDefaultsNoKind(config) ==
  LET c1 == IF config.CoinsForBlockMade = 0
            THEN [config EXCEPT !.CoinsForBlockMade = DefaultCoinsForBlockMade]
            ELSE config
  IN IF c1.Kind = KindConseususPoW
     THEN [c1 EXCEPT !.Settings =
             StructsMap(completeSettings(MapstructureDecode(c1.Settings)))]
     ELSE c1

\* LoadDefaults completing the settings without storing them back
LoadDefaultsNoEncode(config) ==
  LET c1 == IF config.CoinsForBlockMade = 0
            THEN [config EXCEPT !.CoinsForBlockMade = DefaultCoinsForBlockMade]
            ELSE config
  IN IF c1.Kind = "" THEN [c1 EXCEPT !.Kind = KindConseususPoW] ELSE c1

\* LoadDefaults setting the block reward whatever the document gave
LoadDefaultsCoinsAlways(config) ==
  LET c1 == [config EXCEPT !.CoinsForBlockMade = DefaultCoinsForBlockMade]
      c2 == IF c1.Kind = "" THEN [c1 EXCEPT !.Kind = KindConseususPoW] ELSE c1
  IN IF c2.Kind = KindConseususPoW
     THEN [c2 EXCEPT !.Settings =
             StructsMap(completeSettings(MapstructureDecode(c2.Settings)))]
     ELSE c2

\* config.go 80-96: defaults for what the document left out
LoadDefaults(config) ==
  LET c1 == IF config.CoinsForBlockMade = 0
            THEN [config EXCEPT !.CoinsForBlockMade = DefaultCoinsForBlockMade]
            ELSE config
      c2 == IF c1.Kind = "" THEN [c1 EXCEPT !.Kind = KindConseususPoW] ELSE c1
  IN IF c2.Kind = KindConseususPoW
     THEN [c2 EXCEPT !.Settings =
             StructsMap(completeSettings(MapstructureDecode(c2.Settings)))]
     ELSE c2

\* ioutil.ReadFile(filepath)
ReadFile(fsys, filepath) ==
  IF filepath \in DOMAIN fsys /\ fsys[filepath] # NoFile
  THEN [err |-> "nil", data |-> fsys[filepath]]
  ELSE [err |-> "ReadError", data |-> Garbage]

\* NewConfigFromFile(filepath): (*ConsensusConfig, error)
NewConfigFromFileResult(fsys, filepath) ==
  LET rd == ReadFile(fsys, filepath) IN
  IF rd.err # "nil" THEN [err |-> rd.err, config |-> NoObject]
  ELSE IF ~UnmarshalOk(rd.data) THEN [err |-> "ParseError", config |-> NoObject]
  ELSE [err |-> "nil",
        config |-> [LoadDefaults(Unmarshal(rd.data)) EXCEPT
                      !.state = [isDefault |-> FALSE, filePath |-> filepath]]]

\* NewConfigDefault(): (*ConsensusConfig, error)
NewConfigDefaultResult ==
  [ZeroConfig EXCEPT
     !.Kind = KindConseususPoW,
     !.CoinsForBlockMade = DefaultCoinsForBlockMade,
     !.AllowTableCreate = TRUE,
     !.AllowTableDrop = TRUE,
     !.AllowRowDelete = TRUE,
     !.UnmanagedTables = Slice(<<>>),
     !.TableRules = Slice(<<>>),
     !.InitNodesAddreses = Slice(<<>>),
     !.Settings = StructsMap(completeSettings(ZeroSettings)),
     !.state = [isDefault |-> TRUE, filePath |-> ""]]

(* ------------------------------ Export --------------------------------- *)

RECURSIVE Split(_)
\* strings.Split(s, ","): the substrings between the commas; "" gives [""]
Split(s) ==
  IF s = <<>> THEN << <<>> >>
  ELSE IF Head(s) = "," THEN << <<>> >> \o Split(Tail(s))
  ELSE LET r == Split(Tail(s)) IN << <<Head(s)>> \o Head(r) >> \o Tail(r)

RECURSIVE ResolveList(_, _)
\* config.go 151-163: the loop over the split override string
ResolveList(list, thisnodeaddr) ==
  IF list = <<>> THEN <<>>
  ELSE LET a == Head(list)
           rest == ResolveList(Tail(list), thisnodeaddr)
       IN IF a = EmptyStr THEN rest
          ELSE IF a = Own
               THEN IF thisnodeaddr # EmptyStr THEN <<thisnodeaddr>> \o rest
                    ELSE rest
               ELSE <<a>> \o rest

\* OverrideAddresses taking "own" as an address like any other
OverrideAddressesKeepOwn(defaultaddresses, thisnodeaddr) ==
  IF defaultaddresses # EmptyStr
  THEN Slice(SelectSeq(Split(defaultaddresses), LAMBDA a : a # EmptyStr))
  ELSE Slice(<<>>)

\* config.go 146-164: addresses := []string{} and the override string
OverrideAddresses(defaultaddresses, thisnodeaddr) ==
  IF defaultaddresses # EmptyStr
  THEN Slice(ResolveList(Split(defaultaddresses), thisnodeaddr))
  ELSE Slice(<<>>)

\* ExportAddresses without the fallback to the self-address
ExportAddressesNoFallback(cc, defaultaddresses, thisnodeaddr) ==
  LET addresses == OverrideAddresses(defaultaddresses, thisnodeaddr)
  IN IF SliceLen(addresses) > 0 THEN addresses ELSE cc.InitNodesAddreses

\* ExportAddresses appending the override list to the config's list
ExportAddressesMerge(cc, defaultaddresses, thisnodeaddr) ==
  LET addresses == OverrideAddresses(defaultaddresses, thisnodeaddr)
      l1 == IF SliceLen(addresses) > 0
            THEN Slice(cc.InitNodesAddreses.elems \o addresses.elems)
            ELSE cc.InitNodesAddreses
  IN IF SliceLen(l1) = 0 /\ thisnodeaddr # EmptyStr
     THEN Slice(<<thisnodeaddr>>) ELSE l1

\* ExportAddresses falling back to the self-address whenever no override
\* address is left
ExportAddressesAlwaysSelf(cc, defaultaddresses, thisnodeaddr) ==
  LET addresses == OverrideAddresses(defaultaddresses, thisnodeaddr)
  IN IF SliceLen(addresses) > 0 THEN addresses
     ELSE IF thisnodeaddr # EmptyStr THEN Slice(<<thisnodeaddr>>)
     ELSE cc.InitNodesAddreses

\* config.go 166-172: the receiver's copy after the address rules
ExportAddresses(cc, defaultaddresses, thisnodeaddr) ==
  LET addresses == OverrideAddresses(defaultaddresses, thisnodeaddr)
      l1 == IF SliceLen(addresses) > 0 THEN addresses ELSE cc.InitNodesAddreses
  IN IF SliceLen(l1) = 0 /\ thisnodeaddr # EmptyStr
     THEN Slice(<<thisnodeaddr>>) ELSE l1

\* config.go 179-181
ExportName(cc, appname) == IF appname # "" THEN appname ELSE cc.Application.Name

\* cc.Export(defaultaddresses, appname, thisnodeaddr): (jsondata, err);
\* copy is the receiver (a copy of the caller's struct) when Export returns
ExportResult(cc, defaultaddresses, appname, thisnodeaddr) ==
  LET ca == [cc EXCEPT !.InitNodesAddreses =
                          ExportAddresses(cc, defaultaddresses, thisnodeaddr)]
      cn == [ca EXCEPT !.Application.Name = ExportName(ca, appname)]
  IN IF SliceLen(ca.InitNodesAddreses) = 0
     THEN [err |-> "AddrListEmpty", jsondata |-> NoDoc, copy |-> ca]
     ELSE IF cn.Application.Name = ""
     THEN [err |-> "AppNameEmpty", jsondata |-> NoDoc, copy |-> cn]
     ELSE [err |-> "nil", jsondata |-> Marshal(cn), copy |-> cn]

\* a pointer receiver: the caller's struct is the one Export worked on
PointerReceiver(caller, copy) == copy

\* Export and ExportToFile have value receivers: the caller's struct after
\* the call is the struct it passed
ValueReceiver(caller, copy) == caller

\* ioutil.WriteFile(filepath, data, 0644); writable: the storage accepts it
WriteFile(fsys, filepath, data, writable) ==
  IF filepath \in DOMAIN fsys /\ writable
  THEN [err |-> "nil", fs |-> [fsys EXCEPT ![filepath] = data]]
  ELSE [err |-> "WriteError", fs |-> fsys]

\* cc.ExportToFile(filepath, defaultaddresses, appname, thisnodeaddr)
ExportToFileResult(fsys, cc, filepath, defaultaddresses, appname, thisnodeaddr, writable) ==
  LET ex == ExportResult(cc, defaultaddresses, appname, thisnodeaddr) IN
  IF ex.err # "nil" THEN [err |-> ex.err, fs |-> fsys, copy |-> ex.copy]
  ELSE LET wr == WriteFile(fsys, filepath, ex.jsondata, writable)
       IN [err |-> wr.err, fs |-> wr.fs, copy |-> ex.copy]

(* ---------------------------- seed picker ------------------------------ *)

RECURSIVE SplitHostPort(_)
\* the text before the first ":" and the text after it
SplitHostPort(s) ==
  IF s = <<>> THEN [Host |-> <<>>, Port |-> <<>>]
  ELSE IF Head(s) = ":" THEN [Host |-> <<>>, Port |-> Tail(s)]
  ELSE LET r == SplitHostPort(Tail(s))
       IN [Host |-> <<Head(s)>> \o r.Host, Port |-> r.Port]

\* na := net.NodeAddr{}; na.LoadFromString(addr)
LoadFromString(addr) == SplitHostPort(addr)

\* rand.Intn(n): any of 0 .. n-1, numbered here from 1
RandIntn(n) == 1 .. n

\* GetRandomInitialAddress always taking the first address
GetRandomInitialAddressFirst(cc) ==
  IF SliceLen(cc.InitNodesAddreses) = 0 THEN {NoAddr}
  ELSE {LoadFromString(cc.InitNodesAddreses.elems[1])}

\* the values cc.GetRandomInitialAddress() can return
GetRandomInitialAddressResults(cc) ==
  IF SliceLen(cc.InitNodesAddreses) = 0 THEN {NoAddr}
  ELSE {LoadFromString(cc.InitNodesAddreses.elems[i]) :
          i \in RandIntn(SliceLen(cc.InitNodesAddreses))}

(* ------------------------------ persister ------------------------------ *)

\* cc.IsDefault()
IsDefaultResult(cc) == cc.state.isDefault

\* SetConfigFilePath with a value receiver: the caller's struct is not set
SetConfigFilePathByValue(cc, fp) == cc

\* SetConfigFilePath marking the config as no longer the default one
SetConfigFilePathClearsDefault(cc, fp) ==
  [cc EXCEPT !.state.filePath = fp, !.state.isDefault = FALSE]

\* cc.SetConfigFilePath(fp), pointer receiver
SetConfigFilePathResult(cc, fp) == [cc EXCEPT !.state.filePath = fp]

\* cc.UpdateConfig(jsondoc)
UpdateConfigResult(fsys, cc, jsondoc, writable) ==
  IF cc.state.filePath = "" THEN [err |-> "NoFilePath", fs |-> fsys]
  ELSE WriteFile(fsys, cc.state.filePath, jsondoc, writable)

(* ------------------------------- inputs -------------------------------- *)

Tokens == {EmptyStr, Own, AddrA}

RECURSIVE Join(_)
\* the tokens with a comma between each two
Join(ts) ==
  IF ts = <<>> THEN <<>>
  ELSE IF Len(ts) = 1 THEN Head(ts)
  ELSE Head(ts) \o <<",">> \o Join(Tail(ts))

\* the override strings of at most n tokens
OverrideStringsUpTo(n) ==
  {Join(ts) : ts \in UNION {[1 .. k -> Tokens] : k \in 0 .. n}}

OverrideStrings == OverrideStringsUpTo(MaxTokens)

AppNames == {"", "App"}

SelfAddrs == {EmptyStr, AddrSelf}

FilePaths == Paths \cup {""}

\* the JSON object with the members given for k1, k2 and the unknown key
JSettings(v1, v2, vu) ==
  JObj([k \in MapKeys |-> IF k = "k1" THEN v1 ELSE IF k = "k2" THEN v2 ELSE vu])

KindValues == {Absent, JNull, JStr(""), JStr(KindConseususPoW), JStr(OtherKind), JNum(5)}

SettingsValues ==
  {Absent, JNull, JSettings(Absent, Absent, Absent),
   JSettings(JNum(3), Absent, Absent), JSettings(JNum(0), Absent, Absent),
   JSettings(JStr("x"), Absent, Absent), JSettings(JNum(3), JNum(4), Absent),
   JSettings(Absent, Absent, JNum(3)), JSettings(Absent, JNum(4), JNum(3))}

CoinsValues == {Absent, JNum(0), JNum(7)}

AddrValues ==
  {Absent, JNull, JArr(<<>>), JArr(<<JStr(AddrB)>>), JArr(<<JStr(AddrB), JStr(AddrA)>>)}

ApplicationValues ==
  {Absent,
   [Name |-> JStr(""), WebSite |-> Absent, Team |-> Absent],
   [Name |-> JStr("MyChain"), WebSite |-> JStr("example.org"), Team |-> JNull]}

JCost(n) == [f \in CostFields |-> IF f = "Default" THEN JNum(n) ELSE Absent]

JTable ==
  [Table |-> JStr("t"), AllowRowDelete |-> JBool(TRUE), AllowRowUpdate |-> Absent,
   AllowRowInsert |-> JBool(FALSE), AllowTableCreate |-> Absent,
   TransactionCost |-> JCost(2)]

\* the document {} : every field absent
EmptyDoc ==
  [Application |-> Absent, Kind |-> Absent, CoinsForBlockMade |-> Absent,
   Settings |-> Absent, AllowTableCreate |-> Absent, AllowTableDrop |-> Absent,
   AllowRowDelete |-> Absent, TransactionCost |-> Absent,
   UnmanagedTables |-> Absent, TableRules |-> Absent,
   InitNodesAddreses |-> Absent, Extra |-> Absent]

\* a document that sets the permissions, the costs and the tables
RulesDoc ==
  [EmptyDoc EXCEPT !.AllowTableCreate = JBool(TRUE), !.AllowRowDelete = JBool(FALSE),
                   !.TransactionCost = JCost(1), !.UnmanagedTables = JArr(<<JStr("u")>>),
                   !.TableRules = JArr(<<JTable>>), !.Extra = JStr("ignored")]

\* a document with seed addresses and an application name
SeedDoc ==
  [EmptyDoc EXCEPT !.InitNodesAddreses = JArr(<<JStr(AddrB), JStr(AddrA)>>),
                   !.Application = [Name |-> JStr("MyChain"), WebSite |-> Absent,
                                    Team |-> Absent]]

\* the files a configuration may be loaded from
Documents ==
  {Garbage}
  \cup {[EmptyDoc EXCEPT !.Kind = k, !.Settings = st] :
          k \in KindValues, st \in SettingsValues}
  \cup {[d EXCEPT !.CoinsForBlockMade = c] : d \in {EmptyDoc, RulesDoc}, c \in CoinsValues}
  \cup {[EmptyDoc EXCEPT !.InitNodesAddreses = a, !.Application = ap] :
          a \in AddrValues, ap \in ApplicationValues}

\* the documents handed to UpdateConfig
UpdateDocuments == {Garbage, RulesDoc}

(* ------------------------------ actions -------------------------------- *)

\* how the object was made, the path it was loaded from and the path most
\* recently given to it (by its constructor or by SetConfigFilePath)
NoOrigin == [by |-> "none", path |-> "", set |-> ""]

NewConfigFromFile(filepath) ==
  /\ cfg = NoObject
  /\ LET r == NewConfigFromFileResult(fs, filepath) IN
       /\ cfg' = r.config
       /\ origin' = IF r.err = "nil"
                    THEN [by |-> "file", path |-> filepath, set |-> filepath]
                    ELSE origin
       /\ last' = [op |-> "NewConfigFromFile", filepath |-> filepath, err |-> r.err]
  /\ UNCHANGED fs

NewConfigDefault ==
  /\ cfg = NoObject
  /\ cfg' = NewConfigDefaultResult
  /\ origin' = [by |-> "default", path |-> "", set |-> ""]
  /\ last' = [op |-> "NewConfigDefault", err |-> "nil"]
  /\ UNCHANGED fs

Export(defaultaddresses, appname, thisnodeaddr) ==
  /\ cfg # NoObject
  /\ LET r == ExportResult(cfg, defaultaddresses, appname, thisnodeaddr) IN
       /\ cfg' = ValueReceiver(cfg, r.copy)
       /\ last' = [op |-> "Export", defaultaddresses |-> defaultaddresses,
                   appname |-> appname, thisnodeaddr |-> thisnodeaddr,
                   err |-> r.err, jsondata |-> r.jsondata]
  /\ UNCHANGED <<fs, origin>>

ExportToFile(filepath, defaultaddresses, appname, thisnodeaddr, writable) ==
  /\ cfg # NoObject
  /\ LET r == ExportToFileResult(fs, cfg, filepath, defaultaddresses, appname,
                                 thisnodeaddr, writable) IN
       /\ cfg' = ValueReceiver(cfg, r.copy)
       /\ fs' = r.fs
       /\ last' = [op |-> "ExportToFile", filepath |-> filepath,
                   defaultaddresses |-> defaultaddresses, appname |-> appname,
                   thisnodeaddr |-> thisnodeaddr, writable |-> writable,
                   err |-> r.err]
  /\ UNCHANGED origin

GetRandomInitialAddress ==
  /\ cfg # NoObject
  /\ \E na \in GetRandomInitialAddressResults(cfg) :
       last' = [op |-> "GetRandomInitialAddress", err |-> "nil", addr |-> na]
  /\ UNCHANGED <<cfg, fs, origin>>

IsDefault ==
  /\ cfg # NoObject
  /\ last' = [op |-> "IsDefault", err |-> "nil", result |-> IsDefaultResult(cfg)]
  /\ UNCHANGED <<cfg, fs, origin>>

SetConfigFilePath(fp) ==
  /\ cfg # NoObject
  /\ cfg' = SetConfigFilePathResult(cfg, fp)
  /\ origin' = [origin EXCEPT !.set = fp]
  /\ last' = [op |-> "SetConfigFilePath", fp |-> fp, err |-> "nil"]
  /\ UNCHANGED fs

UpdateConfig(jsondoc, writable) ==
  /\ cfg # NoObject
  /\ LET r == UpdateConfigResult(fs, cfg, jsondoc, writable) IN
       /\ fs' = r.fs
       /\ last' = [op |-> "UpdateConfig", jsondoc |-> jsondoc,
                   writable |-> writable, err |-> r.err]
  /\ UNCHANGED <<cfg, origin>>

(* ------------- the life of one configuration object -------------------- *)

\* the files present when the program starts
InitialFiles == {NoFile, SeedDoc}

\* the override strings tried on it
LifeOverrides == {EmptyStr, Own}

Init ==
  /\ cfg = NoObject
  /\ \E d \in InitialFiles : fs = [p \in Paths |-> IF p = "p1" THEN d ELSE NoFile]
  /\ last = [op |-> "none"]
  /\ origin = NoOrigin

Next ==
  \/ \E filepath \in FilePaths : NewConfigFromFile(filepath)
  \/ NewConfigDefault
  \/ \E da \in LifeOverrides, an \in AppNames, ta \in SelfAddrs :
       Export(da, an, ta)
  \/ \E filepath \in FilePaths, da \in LifeOverrides, an \in AppNames,
        ta \in SelfAddrs, writable \in BOOLEAN :
       ExportToFile(filepath, da, an, ta, writable)
  \/ GetRandomInitialAddress
  \/ IsDefault
  \/ \E fp \in FilePaths : SetConfigFilePath(fp)
  \/ \E jsondoc \in UpdateDocuments, writable \in BOOLEAN :
       UpdateConfig(jsondoc, writable)

Spec == Init /\ [][Next]_vars

(* ------------- loading any document and exporting it ------------------- *)

InitExport ==
  /\ cfg = NoObject
  /\ \E d \in Documents : fs = [p \in Paths |-> IF p = "p1" THEN d ELSE NoFile]
  /\ last = [op |-> "none"]
  /\ origin = NoOrigin

NextExport ==
  \/ \E filepath \in FilePaths : NewConfigFromFile(filepath)
  \/ NewConfigDefault
  \/ \E da \in OverrideStrings, an \in AppNames, ta \in SelfAddrs :
       Export(da, an, ta)
  \/ GetRandomInitialAddress

SpecExport == InitExport /\ [][NextExport]_vars

(* ---------------- the override string, as Export's contract reads it -- *)

CommaBounds(s) == {0, Len(s) + 1} \cup {i \in 1 .. Len(s) : s[i] = ","}

\* the j-th smallest of the bounds, counted from 0
Bound(s, j) ==
  CHOOSE b \in CommaBounds(s) : Cardinality({x \in CommaBounds(s) : x < b}) = j

\* the texts between the commas, in order
CommaTokens(s) ==
  [j \in 1 .. Cardinality(CommaBounds(s)) - 1 |->
     SubSeq(s, Bound(s, j - 1) + 1, Bound(s, j) - 1)]

\* the tokens kept, "own" standing for the self-address
KeptTokens(s, self) ==
  LET kept == SelectSeq(CommaTokens(s),
                        LAMBDA t : t # EmptyStr /\ (t = Own => self # EmptyStr))
  IN [i \in DOMAIN kept |-> IF kept[i] = Own THEN self ELSE kept[i]]

\* the address list Export is to publish
ResultingAddresses(cc, s, self) ==
  IF KeptTokens(s, self) # <<>> THEN KeptTokens(s, self)
  ELSE IF SliceLen(cc.InitNodesAddreses) > 0 THEN cc.InitNodesAddreses.elems
  ELSE IF self # EmptyStr THEN <<self>>
  ELSE <<>>

\* the application name Export is to publish
ResultingName(cc, appname) == IF appname # "" THEN appname ELSE cc.Application.Name

JStrings(seq) == JArr([i \in DOMAIN seq |-> JStr(seq[i])])

ExportDone == last.op = "Export"

ExportOk == last.op = "Export" /\ last.err = "nil"

(* -------------------------------- claims ------------------------------- *)

\* C1: Export returns an error exactly when the resulting address list is
\* empty or the resulting application name is empty, and then no document;
\* otherwise it returns a document and no error.  An empty override string
\* with an empty address list and an empty self-address always fails.
C1_ExportErrors ==
  ExportDone =>
    LET noAddr == ResultingAddresses(cfg, last.defaultaddresses, last.thisnodeaddr) = <<>>
        noName == ResultingName(cfg, last.appname) = ""
    IN /\ (last.err # "nil") <=> (noAddr \/ noName)
       /\ last.err \in {"nil", "AddrListEmpty", "AppNameEmpty"}
       /\ last.err = "AddrListEmpty" => noAddr
       /\ last.err = "AppNameEmpty" => noName
       /\ (last.err = "nil") <=> (last.jsondata # NoDoc)
       /\ ( /\ last.defaultaddresses = EmptyStr
            /\ SliceLen(cfg.InitNodesAddreses) = 0
            /\ last.thisnodeaddr = EmptyStr ) => last.err # "nil"

\* an Export that fails on the address list although an override was given,
\* and the config has a name
C1_Witness ==
  /\ ExportDone
  /\ last.err = "AddrListEmpty"
  /\ last.defaultaddresses = Own \o <<",">>
  /\ cfg.Application.Name = "MyChain"

\* C2: the override string is split on commas, empty tokens are skipped,
\* "own" becomes the self-address or is dropped when there is none, the
\* other tokens are kept in order; when that list is not empty, it is the
\* address list of the exported document, whatever the config's list was.
C2_OverrideReplaces ==
  ExportOk =>
    LET kept == KeptTokens(last.defaultaddresses, last.thisnodeaddr)
    IN /\ kept # <<>> => last.jsondata.InitNodesAddreses = JStrings(kept)
       /\ (last.defaultaddresses = Own /\ last.thisnodeaddr # EmptyStr)
            => last.jsondata.InitNodesAddreses = JStrings(<<last.thisnodeaddr>>)
       /\ (last.defaultaddresses = Own \o <<",">> \o AddrA /\ last.thisnodeaddr = AddrSelf)
            => last.jsondata.InitNodesAddreses = JStrings(<<AddrSelf, AddrA>>)

\* "own,a:1" exported from a config that has two other addresses
C2_Witness ==
  /\ ExportOk
  /\ last.defaultaddresses = Own \o <<",">> \o AddrA
  /\ last.thisnodeaddr = AddrSelf
  /\ cfg.InitNodesAddreses = Slice(<<AddrB, AddrA>>)
  /\ last.jsondata.InitNodesAddreses = JStrings(<<AddrSelf, AddrA>>)

\* C3: when no override address is left, a non-empty address list of the
\* config is exported unchanged, without the self-address; an empty one is
\* exported as the self-address alone, when there is a self-address.
C3_NoOverride ==
  ExportOk =>
    LET kept == KeptTokens(last.defaultaddresses, last.thisnodeaddr)
    IN kept = <<>> =>
         /\ SliceLen(cfg.InitNodesAddreses) > 0
              => last.jsondata.InitNodesAddreses = JStrings(cfg.InitNodesAddreses.elems)
         /\ (SliceLen(cfg.InitNodesAddreses) = 0 /\ last.thisnodeaddr # EmptyStr)
              => last.jsondata.InitNodesAddreses = JStrings(<<last.thisnodeaddr>>)

\* an override of empty tokens only, a config with addresses, and a
\* self-address that is not exported
C3_Witness ==
  /\ ExportOk
  /\ last.defaultaddresses = <<",">>
  /\ last.thisnodeaddr = AddrSelf
  /\ cfg.InitNodesAddreses = Slice(<<AddrB>>)
  /\ last.jsondata.InitNodesAddreses = JStrings(<<AddrB>>)

\* C4: Export and ExportToFile leave the caller's configuration as it was,
\* serializable fields and lifecycle state alike, whether they succeed or
\* fail; a config without addresses still yields no seed address after them.
C4_ExportKeepsCaller ==
  [][last'.op \in {"Export", "ExportToFile"} =>
       /\ cfg' = cfg
       /\ SliceLen(cfg.InitNodesAddreses) = 0
            => GetRandomInitialAddressResults(cfg') = {NoAddr}]_vars

\* a successful Export whose document has an address list and a name that
\* the config does not have
C4_Witness ==
  /\ ExportOk
  /\ SliceLen(cfg.InitNodesAddreses) = 0
  /\ cfg.Application.Name = ""
  /\ last.jsondata.InitNodesAddreses = JStrings(<<AddrSelf>>)
  /\ last.jsondata.Application.Name = JStr("App")

C6_KindRecognized == cfg # NoObject => cfg.Kind = KindConseususPoW

\* C6, amended: the Kind of every configuration a constructor returns is
\* not empty; it is the proof-of-work kind for NewConfigDefault and for a
\* document whose Kind is absent, null or empty, and any other Kind of the
\* document is kept as it is, recognized or not.
C6_KindNonEmpty ==
  cfg # NoObject =>
    /\ cfg.Kind # ""
    /\ origin.by = "default" => cfg.Kind = KindConseususPoW
    /\ origin.by = "file" =>
         LET k == fs[origin.path].Kind
         IN IF JMissing(k) \/ k = JStr("") THEN cfg.Kind = KindConseususPoW
            ELSE cfg.Kind = k.str

\* a document without Kind, loaded
C6_Witness ==
  /\ cfg # NoObject
  /\ origin.by = "file"
  /\ fs[origin.path].Kind = Absent
  /\ cfg.Kind = KindConseususPoW

\* the keys the document's Settings supplies
Supplied(doc) ==
  IF JMissing(doc.Settings) THEN {}
  ELSE {k \in MapKeys : doc.Settings.obj[k] # Absent}

\* C7 as stated: a proof-of-work configuration has every settings key, and
\* every key the document supplied keeps the value supplied.
C7_SuppliedKept ==
  (cfg # NoObject /\ cfg.Kind = KindConseususPoW) =>
    /\ \A k \in SettingsKeys : HasKey(cfg.Settings, k)
    /\ origin.by = "file" =>
         \A k \in Supplied(fs[origin.path]) :
            /\ HasKey(cfg.Settings, k)
            /\ MarshalValue(cfg.Settings[k]) = fs[origin.path].Settings.obj[k]

\* C7, amended: a proof-of-work configuration has every settings key and no
\* other key; a key of the settings record that the document supplied with
\* a whole number other than zero keeps that number.  A key that is no
\* field of the record is dropped, and zero or a value of another type is
\* taken as not set.
C7_SettingsComplete ==
  (cfg # NoObject /\ cfg.Kind = KindConseususPoW) =>
    /\ \A k \in MapKeys : HasKey(cfg.Settings, k) <=> k \in SettingsKeys
    /\ origin.by = "file" =>
         \A k \in Supplied(fs[origin.path]) \cap SettingsKeys :
            LET j == fs[origin.path].Settings.obj[k]
            IN ("num" \in DOMAIN j /\ j.num # 0) => cfg.Settings[k].v = j.num

\* a document that supplies one of the two keys, loaded
C7_Witness ==
  /\ cfg # NoObject
  /\ origin.by = "file"
  /\ cfg.Kind = KindConseususPoW
  /\ Supplied(fs[origin.path]) = {"k1"}
  /\ cfg.Settings["k1"].v = 3
  /\ HasKey(cfg.Settings, "k2")

\* C8: a document that Export produced, written to a file, loaded and
\* exported with the same overrides, gives the same document again.
C8_RoundTrip ==
  ExportOk =>
    \A p \in Paths :
      LET wr == WriteFile(fs, p, last.jsondata, TRUE)
          ld == NewConfigFromFileResult(wr.fs, p)
          ex == ExportResult(ld.config, last.defaultaddresses, last.appname,
                             last.thisnodeaddr)
      IN /\ ld.err = "nil"
         /\ ex.err = "nil"
         /\ ex.jsondata = last.jsondata

\* an Export with overrides of a config of another kind, whose reward,
\* settings and addresses came from its document
C8_Witness ==
  /\ ExportOk
  /\ last.defaultaddresses = Own \o <<",">> \o AddrA
  /\ last.thisnodeaddr = AddrSelf
  /\ cfg.Kind = OtherKind
  /\ HasKey(cfg.Settings, UnknownKey)
  /\ last.jsondata.Settings.obj[UnknownKey] = JNum(3)

\* C9: IsDefault is true for a config made by NewConfigDefault, whose path
\* is empty, and false for one loaded by NewConfigFromFile, whose path is
\* the path loaded; no later call changes it, and SetConfigFilePath changes
\* the file path alone.
C9_IsDefaultFixed ==
  /\ [](cfg # NoObject =>
          /\ cfg.state.isDefault <=> origin.by = "default"
          /\ ~cfg.state.isDefault <=> origin.by = "file"
          /\ last.op = "IsDefault" => (last.result <=> origin.by = "default"))
  /\ [][/\ cfg # NoObject => cfg'.state.isDefault = cfg.state.isDefault
        /\ (cfg = NoObject /\ cfg' # NoObject) =>
             cfg'.state.filePath = IF origin'.by = "default" THEN "" ELSE last'.filepath
        /\ last'.op = "SetConfigFilePath" =>
             cfg' = [cfg EXCEPT !.state.filePath = last'.fp]]_vars

\* a loaded config asked IsDefault after its path was changed and a file
\* was written
C9_Witness ==
  /\ last.op = "IsDefault"
  /\ last.result = FALSE
  /\ origin.by = "file"
  /\ cfg.state.filePath = "p2"
  /\ fs["p2"] # NoFile

\* C10: GetRandomInitialAddress returns none exactly when the address list
\* is empty; otherwise what it returns is parsed from an element of the
\* list, every element can be the one, and a list of one element always
\* gives that element.  The call leaves the configuration as it was.
C10_SeedPicker ==
  /\ [](cfg # NoObject =>
          LET res == GetRandomInitialAddressResults(cfg)
              els == cfg.InitNodesAddreses.elems
          IN /\ (NoAddr \in res) <=> (SliceLen(cfg.InitNodesAddreses) = 0)
             /\ SliceLen(cfg.InitNodesAddreses) > 0 =>
                  res = {LoadFromString(els[i]) : i \in DOMAIN els}
             /\ SliceLen(cfg.InitNodesAddreses) = 1 => res = {LoadFromString(els[1])}
             /\ last.op = "GetRandomInitialAddress" =>
                  IF SliceLen(cfg.InitNodesAddreses) = 0 THEN last.addr = NoAddr
                  ELSE \E i \in DOMAIN els : last.addr = LoadFromString(els[i]))
  /\ [][last'.op = "GetRandomInitialAddress" => cfg' = cfg]_vars

\* the second of two addresses picked
C10_Witness ==
  /\ last.op = "GetRandomInitialAddress"
  /\ cfg.InitNodesAddreses = Slice(<<AddrB, AddrA>>)
  /\ last.addr = LoadFromString(AddrA)

====
